---- MODULE Spec2Model ----
(***************************************************************************)
(* Model of configurator.py: the mapping <-> node transcoder               *)
(* (MapDecoder / ConfigDecoder / MapEncoder), the attribute containers     *)
(* (BaseObject, BaseConfig) and the encrypted store (Config).              *)
(*                                                                         *)
(* Strings are sequences of tokens: the key "my_path" is                   *)
(* <<"my", "_", "path">>, the path "~/p" is <<"~", "p">>, "/h/p" is        *)
(* <<"/", "h", "p">>.  Python values are tagged records [t, v].            *)
(* A node's class name (key.capitalize()) is not part of its value.        *)
(***************************************************************************)
EXTENDS Integers, Sequences, FiniteSets, TLC

\* ------------------------------------------------------------------ bounds
MaxDepth == 3
MaxOps == 1
MaxNest == 1

\* ------------------------------------------------------------------ values
Str(s) == [t |-> "str", v |-> s]
Num(n) == [t |-> "int", v |-> n]
List(xs) == [t |-> "list", v |-> xs]
Dict(f) == [t |-> "dict", v |-> f]
\* an instance of a class made by type(name, (BaseConfig,), attrs)
Node(f) == [t |-> "node", v |-> f]
\* an instance of a class made by type(name, (BaseObject,), attrs)
Obj(f) == [t |-> "obj", v |-> f]
\* a pathlib.Path object
PathObj(p) == [t |-> "path", v |-> p]
Err(e) == [t |-> "error", v |-> e]
TypeError == Err("TypeError")
IsErr(x) == x.t = "error"
EmptyMap == <<>>

\* Python truthiness (the `or` of pack_dict, the `if` of update and load)
Truthy(x) ==
  CASE x.t = "str" -> Len(x.v) > 0
    [] x.t = "int" -> x.v # 0
    [] x.t \in {"null", "none"} -> FALSE
    [] x.t = "list" -> Len(x.v) > 0
    [] x.t = "dict" -> DOMAIN x.v # {}
    [] OTHER -> TRUE

\* hasattr(obj, "__dict__")
HasDict(x) == x.t \in {"node", "obj"}

\* some entry of the function f is an error
AnyErr(f) == \E k \in DOMAIN f : IsErr(f[k])
FirstErr(f) == (CHOOSE k \in DOMAIN f : IsErr(f[k]))

\* ------------------------------------------------------------------ paths
Home == <<"/", "h">>
Cwd == <<"/", "w">>

\* Path.expanduser
ExpandUser(s) == IF Len(s) > 0 /\ s[1] = "~" THEN Home \o Tail(s) ELSE s

RECURSIVE Collapse(_, _)
\* Path.resolve on an absolute path: drops "." and folds ".."
Collapse(done, rest) ==
  IF Len(rest) = 0 THEN done
  ELSE IF rest[1] = "." THEN Collapse(done, Tail(rest))
  ELSE IF rest[1] = ".."
    THEN Collapse(IF Len(done) > 1 THEN SubSeq(done, 1, Len(done) - 1) ELSE done,
                  Tail(rest))
  ELSE Collapse(Append(done, rest[1]), Tail(rest))

\* Path(val).expanduser().resolve().as_posix()
ExpandResolve(s) ==
  LET e == ExpandUser(s)
      a == IF Len(e) > 0 /\ e[1] = "/" THEN e ELSE Cwd \o e
  IN Collapse(<<"/">>, Tail(a))

Parent(p) == IF Len(p) > 1 THEN SubSeq(p, 1, Len(p) - 1) ELSE p

\* "path" in key
HasPath(k) == \E i \in 1..Len(k) : k[i] = "path"

\* a[0].startswith("_") and a[0].endswith("_")
IsPrivate(k) == Len(k) > 0 /\ k[1] = "_" /\ k[Len(k)] = "_"

\* BaseConfig.convert_path, ConfigDecoder.process
convert_path(key, val) ==
  IF HasPath(key)
  THEN IF val.t = "str" THEN Str(ExpandResolve(val.v))
       ELSE IF val.t = "path" THEN Str(ExpandResolve(val.v))
       ELSE TypeError
  ELSE val

RECURSIVE path_resolve(_)
\* BaseConfig.path_resolve on the dict _d (a function); a Dict or an error
path_resolve(d) ==
  LET rv == [k \in DOMAIN d |->
               IF d[k].t = "dict" THEN path_resolve(d[k].v)
               ELSE convert_path(k, d[k])]
  IN IF AnyErr(rv) THEN rv[FirstErr(rv)] ELSE Dict(rv)

\* ---------------------------------------------------------------- decoding
Decoders == {"MapDecoder", "ConfigDecoder"}

\* self.processor: identity for MapDecoder, process for ConfigDecoder
processor(dec, k, v) == IF dec = "ConfigDecoder" THEN convert_path(k, v) ELSE v

\* type(parent.capitalize(), self.bases, attrs)()
NewInstance(dec, attrs) == IF dec = "ConfigDecoder" THEN Node(attrs) ELSE Obj(attrs)

RECURSIVE pack_dict(_, _)
\* MapDecoder.pack_dict
pack_dict(dec, d) ==
  LET inner == [k \in DOMAIN d |->
                  IF d[k].t = "dict" THEN pack_dict(dec, d[k].v) ELSE d[k]]
      attrs == [k \in DOMAIN d |->
                  IF IsErr(inner[k]) THEN inner[k]
                  ELSE LET r == processor(dec, k, inner[k])
                       IN IF IsErr(r) THEN r
                          ELSE IF Truthy(r) THEN r ELSE inner[k]]
  IN IF AnyErr(attrs) THEN attrs[FirstErr(attrs)] ELSE NewInstance(dec, attrs)

\* MapDecoder._object_hook
object_hook(dec, dct) ==
  LET rv == [k \in DOMAIN dct |->
               IF dct[k].t = "dict" THEN pack_dict(dec, dct[k].v) ELSE dct[k]]
  IN IF AnyErr(rv) THEN rv[FirstErr(rv)] ELSE Dict(rv)

RECURSIVE loads(_, _)
\* json.loads(text, cls=dec): the hook runs on every object, innermost first
loads(dec, x) ==
  CASE x.t = "dict" ->
         LET inner == [k \in DOMAIN x.v |-> loads(dec, x.v[k])]
         IN IF AnyErr(inner) THEN inner[FirstErr(inner)] ELSE object_hook(dec, inner)
    [] x.t = "list" ->
         LET inner == [i \in DOMAIN x.v |-> loads(dec, x.v[i])]
         IN IF AnyErr(inner) THEN inner[FirstErr(inner)] ELSE List(inner)
    [] OTHER -> x

\* ---------------------------------------------------------------- encoding
RECURSIVE IsJson(_)
\* the stock JSONEncoder can serialise x (otherwise default() raises)
IsJson(x) ==
  CASE x.t \in {"str", "int", "null"} -> TRUE
    [] x.t = "list" -> \A i \in DOMAIN x.v : IsJson(x.v[i])
    [] x.t = "dict" -> \A k \in DOMAIN x.v : IsJson(x.v[k])
    [] OTHER -> FALSE

\* str(obj) of something without __dict__
StrOf(x) == Str(<<"str", x.t>>)

RECURSIVE process_cls(_)
\* MapEncoder.process_cls
process_cls(obj) ==
  IF HasDict(obj)
  THEN LET names == {k \in DOMAIN obj.v : ~IsPrivate(k)}
       IN Dict([k \in names |->
                  IF HasDict(obj.v[k]) THEN process_cls(obj.v[k]) ELSE obj.v[k]])
  ELSE StrOf(obj)

\* json.dumps(o, cls=MapEncoder), as the JSON value the text denotes
dumps(o) == LET m == process_cls(o) IN IF IsJson(m) THEN m ELSE TypeError

\* ------------------------------------------------------- attribute setting
\* the ways a dict of the given keys can be ordered (items() order)
Orders(S) == {s \in [1..Cardinality(S) -> S] : \A i, j \in 1..Cardinality(S) : s[i] = s[j] => i = j}

Put(f, k, x) == [q \in DOMAIN f \cup {k} |-> IF q = k THEN x ELSE f[q]]

\* dict(data, **kwargs): kwargs win
Merge(data, kwargs) ==
  [k \in DOMAIN data \cup DOMAIN kwargs |-> IF k \in DOMAIN kwargs THEN kwargs[k] ELSE data[k]]

save_path_name == <<"save", "_", "path">>
key_path_name == <<"key", "_", "path">>

\* processor_cb values: none, or a callback returning the value it is given
Callbacks == {"none", "keep"}
ApplyCb(cb, k, val) == val

\* setattr(self, k, x) on an object o = [t, cls, attrs, save_path, key_path];
\* on a Config the names save_path and key_path are properties with setters
SetAttribute(o, k, x) ==
  IF o.cls = "Config" /\ k \in {save_path_name, key_path_name}
  THEN IF x.t \notin {"str", "path"} THEN TypeError
       ELSE IF k = save_path_name THEN [o EXCEPT !.save_path = ExpandResolve(x.v)]
       ELSE [o EXCEPT !.key_path = ExpandResolve(x.v)]
  ELSE [o EXCEPT !.attrs = Put(o.attrs, k, x)]

RECURSIVE set_attr(_, _, _, _)
\* BaseConfig.set_attr; order is the items() order of data.
\* Returns [obj, err]: the object as the loop left it, "ok" or the error.
set_attr(o, data, order, cb) ==
  IF Len(order) = 0 THEN [obj |-> o, err |-> "ok"]
  ELSE LET k == Head(order)
           v == data[k]
           val == convert_path(k, v)
       IN IF IsErr(val) THEN [obj |-> o, err |-> val.v]
          ELSE LET o2 == SetAttribute(o, k, IF cb # "none" THEN ApplyCb(cb, k, val) ELSE v)
               IN IF IsErr(o2) THEN [obj |-> o, err |-> o2.v]
                  ELSE set_attr(o2, data, Tail(order), cb)

NoData == [t |-> "none", v |-> 0]

\* BaseConfig.update(data, processor_cb, **kwargs); data is NoData or a Dict
BaseConfig_update(o, data, cb, kwargs, order) ==
  LET d == IF data.t = "dict" /\ Truthy(data) THEN Merge(data.v, kwargs) ELSE kwargs
  IN set_attr(o, d, order, cb)

RECURSIVE BaseObject_setall(_, _, _)
\* the loop of BaseObject.update: setattr(cls, k, v) with paths resolved
BaseObject_setall(attrs, data, order) ==
  IF Len(order) = 0 THEN [attrs |-> attrs, err |-> "ok"]
  ELSE LET k == Head(order)
           v == convert_path(k, data[k])
       IN IF IsErr(v) THEN [attrs |-> attrs, err |-> v.v]
          ELSE BaseObject_setall(Put(attrs, k, v), data, Tail(order))

\* BaseObject.update(__d, **kwargs); __d is NoData (the default {}) or a Dict
BaseObject_update(attrs, data, kwargs, order) ==
  LET d == IF data.t = "dict" THEN data.v ELSE EmptyMap
  IN IF DOMAIN d # {} /\ DOMAIN kwargs # {}
     THEN [attrs |-> attrs, err |-> "AttributeError"]
     ELSE BaseObject_setall(attrs, IF DOMAIN d # {} THEN d ELSE kwargs, order)

\* a plain BaseConfig instance with the given attributes
AsObject(attrs) ==
  [t |-> "object", cls |-> "BaseConfig", attrs |-> attrs, save_path |-> <<>>, key_path |-> <<>>]

\* ------------------------------------------------------------------- state
VARIABLES
  \* the transcoder pipeline on one input mapping
  doc,        \* the input mapping M
  dec,        \* the decoder class in use
  stage,      \* "input", "normalized", "decoded", "encoded", "direct", "updated"
  norm,       \* path_resolve(M)
  decoded,    \* json.loads(json.dumps(norm), cls=dec)
  encoded,    \* the encoder's output
  upd         \* the last update call on a decoded node

VARIABLES
  \* the Config object
  attrs,      \* its configuration attributes (instance and class attributes)
  converted,  \* _converted_: None until load or restore assigns it
  save_path,  \* _save_path_
  key_path,   \* _key_path_
  \* the disk
  files,      \* path -> content of the key and ciphertext files
  dirs,       \* the directories that exist
  \* the last call and how it ended
  lastOp,
  result,     \* "ok" or the name of the exception raised
  nOps,       \* number of update / add_cls_attr calls so far
  pinned      \* history: the paths given to save(save_path, key_path)

codecVars == <<doc, dec, stage, norm, decoded, encoded, upd>>
storeVars == <<attrs, converted, save_path, key_path, files, dirs,
               lastOp, result, nOps, pinned>>
vars == <<codecVars, storeVars>>

None == [t |-> "none", v |-> 0]

\* DATA_PATH, DEFAULT_SECRET_FILE, DEFAULT_CFG_FILE
DATA_PATH == Home \o <<".everynet">>
DEFAULT_SECRET_FILE == DATA_PATH \o <<"secret.key">>
DEFAULT_CFG_FILE == DATA_PATH \o <<"config">>

\* Config.__init__ without load_path and restore: the object it leaves
Config(sp, kp) ==
  [t |-> "object", cls |-> "Config", attrs |-> EmptyMap,
   save_path |-> ExpandResolve(sp), key_path |-> ExpandResolve(kp)]

Constructed(sp, kp) ==
  /\ attrs = Config(sp, kp).attrs
  /\ converted = None
  /\ save_path = Config(sp, kp).save_path
  /\ key_path = Config(sp, kp).key_path

StoreIdle ==
  /\ Constructed(DEFAULT_CFG_FILE, DEFAULT_SECRET_FILE)
  /\ files = EmptyMap
  /\ dirs = {<<"/">>, Home, Cwd}
  /\ lastOp = "init"
  /\ result = "ok"
  /\ nOps = 0
  /\ pinned = None

CodecIdle ==
  /\ doc = EmptyMap
  /\ dec = "ConfigDecoder"
  /\ stage = "input"
  /\ norm = None
  /\ decoded = None
  /\ encoded = None
  /\ upd = None

\* ------------------------------------------------------- pipeline inputs
CodecKeys == {<<"name">>, <<"path">>, <<"_", "x", "_">>}
Leaves == {Str(<<"~", "p">>), Num(5), List(<<Str(<<"X">>)>>)}

RECURSIVE Depth(_)
Depth(x) ==
  CASE x.t = "dict" ->
         1 + (IF DOMAIN x.v = {} THEN 0
              ELSE LET ds == {Depth(x.v[k]) : k \in DOMAIN x.v}
                   IN CHOOSE d \in ds : \A e \in ds : e <= d)
    [] x.t = "list" ->
         (IF Len(x.v) = 0 THEN 0
          ELSE LET ds == {Depth(x.v[i]) : i \in DOMAIN x.v}
               IN CHOOSE d \in ds : \A e \in ds : e <= d)
    [] OTHER -> 0

\* the mappings and keyword arguments handed to update
UpdMaps ==
  { (<<"foo">> :> Str(<<"bar">>)),
    (<<"foo">> :> Str(<<"fee">>)) @@ (<<"my", "_", "path">> :> Str(<<"~", "p">>)) }
UpdKwargs ==
  { EmptyMap,
    (<<"baz">> :> Str(<<"fee">>)),
    (<<"foo">> :> Str(<<"a">>)) }

CodecInit ==
  /\ doc = EmptyMap
  /\ dec \in Decoders
  /\ stage = "input"
  /\ norm = None
  /\ decoded = None
  /\ encoded = None
  /\ upd = None
  /\ StoreIdle

\* the caller writes one more entry into the innermost mapping
AddLeaf(k, leaf) ==
  /\ stage = "input"
  /\ Depth(Dict(doc)) <= 1
  /\ k \notin DOMAIN doc
  /\ doc' = Put(doc, k, leaf)
  /\ UNCHANGED <<dec, stage, norm, decoded, encoded, upd>>
  /\ UNCHANGED storeVars

\* the caller nests the mapping under a key
Wrap(k) ==
  /\ stage = "input"
  /\ Depth(Dict(doc)) < MaxDepth
  /\ doc' = (k :> Dict(doc))
  /\ UNCHANGED <<dec, stage, norm, decoded, encoded, upd>>
  /\ UNCHANGED storeVars

\* the caller puts the mapping into a sequence under a key
WrapList(k) ==
  /\ stage = "input"
  /\ Depth(Dict(doc)) < MaxDepth
  /\ doc' = (k :> List(<<Dict(doc)>>))
  /\ UNCHANGED <<dec, stage, norm, decoded, encoded, upd>>
  /\ UNCHANGED storeVars

\* raw_dict := BaseConfig.path_resolve(data)
Normalize ==
  /\ stage = "input"
  /\ norm' = path_resolve(doc)
  /\ stage' = "normalized"
  /\ UNCHANGED <<doc, dec, decoded, encoded, upd>>
  /\ UNCHANGED storeVars

\* json.loads(json.dumps(raw_dict), cls=dec)
Decode ==
  /\ stage = "normalized"
  /\ ~IsErr(norm)
  /\ decoded' = loads(dec, norm)
  /\ stage' = "decoded"
  /\ UNCHANGED <<doc, dec, norm, encoded, upd>>
  /\ UNCHANGED storeVars

\* the decoded mapping is merged into an empty BaseConfig (set_attr), which
\* json.dumps(root, cls=MapEncoder) then encodes
EncodeMerged ==
  /\ stage = "decoded"
  /\ ~IsErr(decoded)
  /\ \E order \in Orders(DOMAIN decoded.v) :
       LET r == set_attr(AsObject(EmptyMap), decoded.v, order, "none")
       IN encoded' = IF r.err # "ok" THEN Err(r.err) ELSE dumps(Node(r.obj.attrs))
  /\ stage' = "encoded"
  /\ UNCHANGED <<doc, dec, norm, decoded, upd>>
  /\ UNCHANGED storeVars

\* json.dumps(decoded, cls=MapEncoder) on the decoded mapping itself
EncodeDirect ==
  /\ stage = "decoded"
  /\ ~IsErr(decoded)
  /\ encoded' = dumps(decoded)
  /\ stage' = "direct"
  /\ UNCHANGED <<doc, dec, norm, decoded, upd>>
  /\ UNCHANGED storeVars

\* node.update(data, processor_cb, **kwargs) on a node of the decoded
\* mapping; BaseObject.update takes no processor_cb
NodeUpdate(k, data, cb, kwargs) ==
  /\ stage = "decoded"
  /\ ~IsErr(decoded)
  /\ k \in DOMAIN decoded.v
  /\ HasDict(decoded.v[k])
  /\ decoded.v[k].t = "obj" => cb = "none"
  /\ LET before == decoded.v[k].v
         d == IF data.t = "dict" /\ Truthy(data) THEN Merge(data.v, kwargs) ELSE kwargs
     IN \E order \in Orders(DOMAIN d) :
          LET r == IF decoded.v[k].t = "node"
                   THEN LET s == BaseConfig_update(AsObject(before), data, cb, kwargs, order)
                        IN [attrs |-> s.obj.attrs, err |-> s.err]
                   ELSE BaseObject_update(before, data, kwargs, order)
          IN upd' = [t |-> "update", before |-> before, data |-> data, cb |-> cb,
                     kwargs |-> kwargs, after |-> r.attrs, err |-> r.err]
  /\ stage' = "updated"
  /\ UNCHANGED <<doc, dec, norm, decoded, encoded>>
  /\ UNCHANGED storeVars

CodecNext ==
  \/ \E k \in CodecKeys, leaf \in Leaves : AddLeaf(k, leaf)
  \/ \E k \in CodecKeys : Wrap(k)
  \/ \E k \in CodecKeys : WrapList(k)
  \/ Normalize
  \/ Decode
  \/ EncodeMerged
  \/ EncodeDirect
  \/ \E k \in CodecKeys, data \in {NoData} \cup {Dict(m) : m \in UpdMaps},
        cb \in Callbacks, kwargs \in UpdKwargs :
       NodeUpdate(k, data, cb, kwargs)

SpecCodec == CodecInit /\ [][CodecNext]_vars

\* ------------------------------------------------------- transcoder claims
RECURSIVE StripPrivate(_)
\* x without the keys that start and end with the private marker
StripPrivate(x) ==
  CASE x.t = "dict" ->
         Dict([k \in {q \in DOMAIN x.v : ~IsPrivate(q)} |-> StripPrivate(x.v[k])])
    [] x.t = "list" -> List([i \in DOMAIN x.v |-> StripPrivate(x.v[i])])
    [] OTHER -> x

\* C2: for every JSON mapping M, normalize, decode and encode all complete
\* without error and the encoded mapping equals normalize(M) at every level,
\* private keys aside.
C2_RoundTrip ==
  /\ stage \in {"normalized", "decoded", "encoded"} => ~IsErr(norm)
  /\ stage \in {"decoded", "encoded"} => ~IsErr(decoded)
  /\ stage = "encoded" =>
       /\ ~IsErr(encoded)
       /\ encoded.t = "dict"
       /\ StripPrivate(encoded) = StripPrivate(norm)

\* the mapping an update call is asked to apply
Requested(u) == Merge(IF u.data.t = "dict" THEN u.data.v ELSE EmptyMap, u.kwargs)

\* C9: update(M, **K) on any node raises no error, sets every key of M and
\* of K (K winning) and leaves the node's other attributes unchanged.
C9_UpdateMerges ==
  stage = "updated" =>
    /\ upd.err = "ok"
    /\ DOMAIN upd.after = DOMAIN upd.before \cup DOMAIN Requested(upd)
    /\ \A k \in DOMAIN upd.before \ DOMAIN Requested(upd) : upd.after[k] = upd.before[k]
    /\ \A k \in DOMAIN Requested(upd) : ~HasPath(k) => upd.after[k] = Requested(upd)[k]

\* C8: after an update that raised nothing, a key holds its path-normalized
\* value when no processor_cb was given (a key without "path" its value
\* unchanged), and processor_cb(key, normalized value) otherwise.
C8_UpdateNormalizes ==
  (stage = "updated" /\ upd.err = "ok") =>
    \A k \in DOMAIN Requested(upd) :
      upd.after[k] = IF upd.cb = "none"
                     THEN convert_path(k, Requested(upd)[k])
                     ELSE ApplyCb(upd.cb, k, convert_path(k, Requested(upd)[k]))

\* ------------------------------------------------------------- the store
\* the Config object as set_attr and the encoder see it
StoreObj ==
  [t |-> "object", cls |-> "Config", attrs |-> attrs,
   save_path |-> save_path, key_path |-> key_path]

RECURSIVE SeqOf(_)
SeqOf(S) == IF S = {} THEN <<>> ELSE LET x == CHOOSE x \in S : TRUE IN <<x>> \o SeqOf(S \ {x})

\* the items() orders that can make a difference: the order matters only
\* when some key makes set_attr raise, leaving the earlier keys set
ItemOrders(data) ==
  IF \E k \in DOMAIN data : IsErr(convert_path(k, data[k]))
  THEN Orders(DOMAIN data)
  ELSE {SeqOf(DOMAIN data)}

\* inspect.getmembers(config, not isroutine): the instance and class
\* attributes, the private fields, and the values of the two properties
Members(o, conv) ==
  Merge(Merge(o.attrs,
              IF conv.t = "none" THEN EmptyMap
              ELSE (<<"_", "converted", "_">> :> conv)),
        (save_path_name :> Str(o.save_path)) @@
        (key_path_name :> Str(o.key_path)) @@
        (<<"_", "save", "_", "path", "_">> :> PathObj(o.save_path)) @@
        (<<"_", "key", "_", "path", "_">> :> PathObj(o.key_path)))

\* json.dumps(self, cls=MapEncoder)
encode_store(o, conv) == dumps(Node(Members(o, conv)))

\* file contents: a key file, a ciphertext made by box.encrypt(data) under
\* the key id, and bytes that are no ciphertext of any key
KeyFile(id) == [kind |-> "key", id |-> id, plain |-> None]
Cipher(id, data) == [kind |-> "cipher", id |-> id, plain |-> data]
Garbage == [kind |-> "garbage", id |-> 0, plain |-> None]

\* SecretBox(): a random key, different from every key in use on the disk
NewKey(fs) ==
  LET used == {fs[p].id : p \in DOMAIN fs}
  IN CHOOSE n \in 1..(Cardinality(DOMAIN fs) + 1) :
       n \notin used /\ \A m \in 1..(n - 1) : m \in used

Remove(f, S) == [q \in DOMAIN f \ S |-> f[q]]

\* mutant: the existence test always succeeds
is_file_always(fs, p) == TRUE

\* Path.exists() and Path.is_file()
is_file(fs, p) == p \in DOMAIN fs

\* mutant: decryption that does not authenticate against the key
decrypt_any_key(key, content) ==
  IF content.kind = "cipher"
  THEN content.plain
  ELSE Err("DecryptionFailure")

\* SecretBox(key).decrypt(content)
decrypt(key, content) ==
  IF content.kind = "cipher" /\ content.id = key
  THEN content.plain
  ELSE Err("DecryptionFailure")

\* Config._decrypt: load_key(self._key_path_), self._save_path_.read_bytes()
\* (each raises on a missing file), then decrypt
Config_decrypt(o, fs) ==
  IF o.key_path \notin DOMAIN fs THEN Err("FileNotFoundError")
  ELSE IF o.save_path \notin DOMAIN fs THEN Err("FileNotFoundError")
  ELSE decrypt(fs[o.key_path].id, fs[o.save_path])

\* what _converted_ holds after an assignment of the decoded mapping c: the
\* dict itself; its node values are the very objects set_attr then attaches
\* to the Config, so they are kept as references to those attributes
Cached(c) ==
  Dict([k \in DOMAIN c.v |-> IF HasDict(c.v[k]) THEN [t |-> "ref", v |-> k] ELSE c.v[k]])

\* the outcome [obj, converted, err] of set_attr's outcome r and the cache
Merged(r, cache) == [obj |-> r.obj, converted |-> cache, err |-> r.err]

\* self._converted_ = c; self.set_attr(self._converted_), where c is what
\* json.loads(..., cls=ConfigDecoder) gave, or the error it raised
assign_converted(o, conv, c, order) ==
  IF IsErr(c)
  THEN [obj |-> o, converted |-> conv, err |-> c.v]
  ELSE Merged(set_attr(o, c.v, order, "none"), Cached(c))

\* json.loads(decrypted.decode("utf-8"), cls=ConfigDecoder)
decode_text(decrypted) ==
  IF IsErr(decrypted) THEN decrypted ELSE loads("ConfigDecoder", decrypted)

\* Config.restore on the object o with cache conv and disk fs;
\* [obj, converted, err]
restore(o, conv, fs, order) ==
  IF is_file(fs, o.key_path)
  THEN assign_converted(o, conv, decode_text(Config_decrypt(o, fs)), order)
  ELSE [obj |-> o, converted |-> conv, err |-> "ok"]

\* the items() orders of the decoded mapping c that set_attr may iterate in
DecodedOrders(c) == IF IsErr(c) THEN {<<>>} ELSE ItemOrders(c.v)

\* the keys restore's set_attr iterates over
RestoreOrders(o, fs) == DecodedOrders(decode_text(Config_decrypt(o, fs)))

\* ---------------------------------------------------------- store inputs
\* the save target as the caller spells it; the default key file and another
RawSavePaths == {<<"~", ".everynet", ".", "config">>}
RawKeyPaths == {<<"~", ".everynet", "secret.key">>, <<"~", ".everynet", "other.key">>}

\* the source files on disk: load path -> parsed content
SourceFiles ==
  ([stem |-> "cfg", suffix |-> ".json"] :>
     ((<<"project">> :> Dict((<<"name">> :> Str(<<"X">>)) @@ (<<"path">> :> Str(<<"~", "p">>))))))
  @@
  ([stem |-> "cfg", suffix |-> ".toml"] :>
     ((<<"project">> :> Dict((<<"name">> :> Str(<<"X">>)) @@ (<<"path">> :> Str(<<"~", "p">>))))))
  @@
  ([stem |-> "cfg", suffix |-> ".yaml"] :>
     ((<<"name">> :> Str(<<"X">>))))

\* the paths handed to load: the files above and one that does not exist
LoadPaths == DOMAIN SourceFiles \cup {[stem |-> "nope", suffix |-> ".yaml"]}

StoreUpdMaps == { (<<"my", "_", "path">> :> Str(<<"~", "p">>)) }
StoreUpdKwargs == {EmptyMap}

ClsNames == {<<"sub">>}
ClsAttrs == {(<<"key">> :> Str(<<"value">>))}

RECURSIVE NodePaths(_, _)
\* the key sequences, of length at most n, that lead to a node below attrs
NodePaths(a, n) ==
  {<<>>} \cup
  (IF n = 0 THEN {}
   ELSE UNION {{<<k>> \o q : q \in NodePaths(a[k].v, n - 1)} :
               k \in {q \in DOMAIN a : a[q].t = "node"}})

RECURSIVE UpdateIn(_, _, _, _, _, _)
\* node.update(data, processor_cb, **kwargs) on the node that path leads to
UpdateIn(a, path, data, cb, kwargs, order) ==
  IF Len(path) = 0
  THEN LET r == BaseConfig_update(AsObject(a), data, cb, kwargs, order)
       IN [attrs |-> r.obj.attrs, err |-> r.err]
  ELSE LET sub == UpdateIn(a[path[1]].v, Tail(path), data, cb, kwargs, order)
       IN [attrs |-> Put(a, path[1], Node(sub.attrs)), err |-> sub.err]

\* ------------------------------------------------------ store operations
exists(fs, ds, p) == p \in DOMAIN fs \/ p \in ds

\* mutant: a file of any other suffix is read as JSON
parse_any_suffix(p) == Dict(SourceFiles[p])

\* the suffix dispatch of Config.load: json.load, pytomlpp.load or raise
parse(p) ==
  IF p.suffix = ".json" THEN Dict(SourceFiles[p])
  ELSE IF p.suffix = ".toml" THEN Dict(SourceFiles[p])
  ELSE Err("NotImplementedError")

\* self._save_path_.parent.mkdir(exist_ok=True): the directories afterwards,
\* and an error when the parent's own parent is missing
mkdir(ds, d) ==
  IF d \in ds THEN [dirs |-> ds, err |-> "ok"]
  ELSE IF Parent(d) \in ds THEN [dirs |-> ds \cup {d}, err |-> "ok"]
  ELSE [dirs |-> ds, err |-> "FileNotFoundError"]

\* `if raw_dict := BaseConfig.path_resolve(data)` and its body, where
\* raw_dict is the resolved mapping or the error path_resolve raised
load_resolved(o, conv, raw_dict, order) ==
  IF IsErr(raw_dict) THEN [obj |-> o, converted |-> conv, err |-> raw_dict.v]
  ELSE IF ~Truthy(raw_dict) THEN [obj |-> o, converted |-> conv, err |-> "ok"]
  ELSE assign_converted(o, conv, loads("ConfigDecoder", raw_dict), order)

\* the suffix dispatch and what follows it, where data is what the parser
\* gave or the error raised
load_parsed(o, conv, data, order) ==
  IF IsErr(data) THEN [obj |-> o, converted |-> conv, err |-> data.v]
  ELSE load_resolved(o, conv, path_resolve(data.v), order)

\* the outcome r = [obj, converted, err] with the directories ds
WithDirs(r, ds) == [obj |-> r.obj, converted |-> r.converted, dirs |-> ds, err |-> r.err]

\* Config.load after the mkdir, whose outcome is mk; [obj, converted, dirs, err]
load_file(o, conv, ds, mk, p, order) ==
  IF mk.err # "ok"
  THEN [obj |-> o, converted |-> conv, dirs |-> ds, err |-> mk.err]
  ELSE IF p \notin DOMAIN SourceFiles
  THEN [obj |-> o, converted |-> conv, dirs |-> mk.dirs, err |-> "FileNotFoundError"]
  ELSE WithDirs(load_parsed(o, conv, parse(p), order), mk.dirs)

\* Config.load; [obj, converted, dirs, err]
load(o, conv, ds, p, order) ==
  load_file(o, conv, ds, mkdir(ds, Parent(o.save_path)), p, order)

\* the mapping load decodes, or the error raised on the way
load_decoded(data) ==
  IF IsErr(data) THEN data ELSE decode_text(path_resolve(data.v))

\* the keys load's set_attr iterates over, in the orders the file may give
LoadOrders(p) ==
  IF p \in DOMAIN SourceFiles THEN DecodedOrders(load_decoded(parse(p))) ELSE {<<>>}

\* self._save_path_.write_bytes(encrypted) of the data encrypted under key,
\* on the disk fs1 that the key handling left; [save_path, key_path, files, err]
write_encrypted(sp, kp, fs1, ds, key, data) ==
  IF sp \in ds
  THEN [save_path |-> sp, key_path |-> kp, files |-> fs1, err |-> "IsADirectoryError"]
  ELSE IF Parent(sp) \notin ds
  THEN [save_path |-> sp, key_path |-> kp, files |-> fs1, err |-> "FileNotFoundError"]
  ELSE [save_path |-> sp, key_path |-> kp, files |-> Put(fs1, sp, Cipher(key, data)),
        err |-> "ok"]

\* Config._encrypt and the write, with the paths sp, kp now in force: the
\* key is loaded from kp if that exists, else generated and saved there
encrypt_write(sp, kp, fs, ds, data) ==
  IF kp \in ds
  THEN [save_path |-> sp, key_path |-> kp, files |-> fs, err |-> "IsADirectoryError"]
  ELSE IF exists(fs, ds, kp)
  THEN write_encrypted(sp, kp, fs, ds, fs[kp].id, data)
  ELSE IF Parent(kp) \notin ds
  THEN [save_path |-> sp, key_path |-> kp, files |-> fs, err |-> "FileNotFoundError"]
  ELSE write_encrypted(sp, kp, Put(fs, kp, KeyFile(NewKey(fs))), ds, NewKey(fs), data)

\* Config.save after json.dumps gave data (or raised)
save_encoded(o, fs, ds, spArg, kpArg, data) ==
  IF IsErr(data)
  THEN [save_path |-> o.save_path, key_path |-> o.key_path, files |-> fs, err |-> data.v]
  ELSE encrypt_write(IF Truthy(spArg) THEN ExpandResolve(spArg.v) ELSE o.save_path,
                     IF Truthy(kpArg) THEN ExpandResolve(kpArg.v) ELSE o.key_path,
                     fs, ds, data)

\* Config.save; [save_path, key_path, files, err]
save(o, conv, fs, ds, spArg, kpArg) ==
  save_encoded(o, fs, ds, spArg, kpArg, encode_store(o, conv))

\* mutant: the key file is left behind
prune_files_keep_key(fs, sp, kp) == Remove(fs, {sp})

\* the files Config.prune leaves
prune_files(fs, sp, kp) == Remove(fs, {sp, kp})

IsPathField(k) == k \in {save_path_name, key_path_name}

\* the Config object after a call that left it as o
Becomes(o) ==
  /\ attrs' = o.attrs
  /\ save_path' = o.save_path
  /\ key_path' = o.key_path

\* the outcome r = [obj, converted, dirs, err] of a load call takes effect
Loaded(r) ==
  /\ Becomes(r.obj)
  /\ converted' = r.converted
  /\ dirs' = r.dirs
  /\ result' = r.err

Load(p) ==
  /\ \E order \in LoadOrders(p) : Loaded(load(StoreObj, converted, dirs, p, order))
  /\ lastOp' = "load"
  /\ UNCHANGED <<files, nOps, pinned>>
  /\ UNCHANGED codecVars

\* the outcome r = [obj, err] of an update on the Config takes effect
Updated(r) ==
  /\ Becomes(r.obj)
  /\ result' = r.err

\* the outcome r = [attrs, err] of an update on a node below the Config
UpdatedBelow(r) ==
  /\ attrs' = r.attrs
  /\ result' = r.err
  /\ UNCHANGED <<save_path, key_path>>

Update(target, data, cb, kwargs) ==
  /\ nOps < MaxOps
  /\ target \in NodePaths(attrs, MaxNest)
  /\ \E order \in ItemOrders(Requested([data |-> data, kwargs |-> kwargs])) :
       IF Len(target) = 0
       THEN Updated(BaseConfig_update(StoreObj, data, cb, kwargs, order))
       ELSE UpdatedBelow(UpdateIn(attrs, target, data, cb, kwargs, order))
  /\ pinned' = IF /\ Len(target) = 0
                  /\ \E k \in DOMAIN Requested([data |-> data, kwargs |-> kwargs]) :
                       IsPathField(k)
               THEN None ELSE pinned
  /\ lastOp' = "update"
  /\ nOps' = nOps + 1
  /\ UNCHANGED <<converted, files, dirs>>
  /\ UNCHANGED codecVars

\* add_cls_attr(name, cattrs): self.update({name: type(...)()})
AddClsAttr(target, name, cattrs) ==
  /\ nOps < MaxOps
  /\ target \in NodePaths(attrs, MaxNest)
  /\ IF Len(target) = 0
     THEN Updated(BaseConfig_update(StoreObj, Dict(name :> Node(cattrs)), "none",
                                    EmptyMap, <<name>>))
     ELSE UpdatedBelow(UpdateIn(attrs, target, Dict(name :> Node(cattrs)), "none",
                                EmptyMap, <<name>>))
  /\ lastOp' = "add_cls_attr"
  /\ nOps' = nOps + 1
  /\ UNCHANGED <<converted, files, dirs, pinned>>
  /\ UNCHANGED codecVars

\* the outcome r = [save_path, key_path, files, err] of a save takes effect
Saved(r) ==
  /\ save_path' = r.save_path
  /\ key_path' = r.key_path
  /\ files' = r.files
  /\ result' = r.err

Save(spArg, kpArg) ==
  /\ Saved(save(StoreObj, converted, files, dirs, spArg, kpArg))
  /\ lastOp' = "save"
  /\ pinned' = IF Truthy(spArg) /\ Truthy(kpArg)
               THEN [t |-> "pin", save_path |-> ExpandResolve(spArg.v),
                     key_path |-> ExpandResolve(kpArg.v)]
               ELSE IF pinned.t = "pin" /\ Truthy(spArg)
               THEN [pinned EXCEPT !.save_path = ExpandResolve(spArg.v)]
               ELSE IF pinned.t = "pin" /\ Truthy(kpArg)
               THEN [pinned EXCEPT !.key_path = ExpandResolve(kpArg.v)]
               ELSE pinned
  /\ UNCHANGED <<attrs, converted, dirs, nOps>>
  /\ UNCHANGED codecVars
  /\ UNCHANGED codecVars

\* the outcome r = [obj, converted, err] of a restore takes effect
Restored(r) ==
  /\ Becomes(r.obj)
  /\ converted' = r.converted
  /\ result' = r.err

Restore ==
  /\ \E order \in RestoreOrders(StoreObj, files) :
       Restored(restore(StoreObj, converted, files, order))
  /\ lastOp' = "restore"
  /\ UNCHANGED <<files, dirs, nOps, pinned>>
  /\ UNCHANGED codecVars

Prune ==
  /\ files' = prune_files(files, save_path, key_path)
  /\ converted' = Dict(EmptyMap)
  /\ result' = "ok"
  /\ lastOp' = "prune"
  /\ UNCHANGED <<attrs, save_path, key_path, dirs, nOps, pinned>>
  /\ UNCHANGED codecVars

\* config.save_path = val
SetSavePath(val) ==
  /\ save_path' = ExpandResolve(val)
  /\ result' = "ok"
  /\ lastOp' = "set_save_path"
  /\ pinned' = None
  /\ UNCHANGED <<attrs, converted, key_path, files, dirs, nOps>>
  /\ UNCHANGED codecVars

\* config.key_path = val
SetKeyPath(val) ==
  /\ key_path' = ExpandResolve(val)
  /\ result' = "ok"
  /\ lastOp' = "set_key_path"
  /\ pinned' = None
  /\ UNCHANGED <<attrs, converted, save_path, files, dirs, nOps>>
  /\ UNCHANGED codecVars

\* del config; config = Config(save_path=sp, key_path=kp)
Reopen(sp, kp) ==
  /\ attrs' = Config(sp, kp).attrs
  /\ converted' = None
  /\ save_path' = Config(sp, kp).save_path
  /\ key_path' = Config(sp, kp).key_path
  /\ result' = "ok"
  /\ lastOp' = "init"
  /\ pinned' = None
  /\ UNCHANGED <<files, dirs, nOps>>
  /\ UNCHANGED codecVars

\* something else changes a byte of a ciphertext file
Tamper(p) ==
  /\ p \in DOMAIN files
  /\ files[p].kind = "cipher"
  /\ files' = [files EXCEPT ![p] = Garbage]
  /\ result' = "ok"
  /\ lastOp' = "tamper"
  /\ UNCHANGED <<attrs, converted, save_path, key_path, dirs, nOps, pinned>>
  /\ UNCHANGED codecVars

Init == StoreIdle /\ CodecIdle

PathArgs(S) == {None} \cup {Str(p) : p \in S}

Next ==
  \/ \E p \in LoadPaths : Load(p)
  \/ \E target \in NodePaths(attrs, MaxNest), data \in {Dict(m) : m \in StoreUpdMaps},
        cb \in {"none"}, kwargs \in StoreUpdKwargs :
       Update(target, data, cb, kwargs)
  \/ \E target \in NodePaths(attrs, MaxNest), name \in ClsNames, cattrs \in ClsAttrs :
       AddClsAttr(target, name, cattrs)
  \/ \E sp \in PathArgs(RawSavePaths), kp \in PathArgs(RawKeyPaths) : Save(sp, kp)
  \/ Restore
  \/ Prune
  \/ \E val \in RawSavePaths : SetSavePath(val)
  \/ \E val \in RawKeyPaths : SetKeyPath(val)
  \/ \E sp \in RawSavePaths, kp \in RawKeyPaths : Reopen(sp, kp)
  \/ \E p \in DOMAIN files : Tamper(p)

Spec == Init /\ [][Next]_vars

\* ------------------------------------------------------------ store claims
\* C1: right after a successful save(), restore() on a freshly constructed
\* Config with the same save target and key file raises nothing and yields a
\* Config whose encoded form is the encoded form that save() encrypted.
C1_SaveRestoreRoundTrip ==
  (lastOp = "save" /\ result = "ok") =>
    \A order \in RestoreOrders(Config(save_path, key_path), files) :
      LET r == restore(Config(save_path, key_path), None, files, order)
      IN /\ r.err = "ok"
         /\ encode_store(r.obj, r.converted) = files[save_path].plain

\* C3: in every reachable state the encoded Config is a mapping whose keys
\* are exactly the names of its non-private configuration attributes: no
\* entry for the save target, the key file path or the cache.
C3_EncodedKeys ==
  LET e == encode_store(StoreObj, converted)
  IN /\ ~IsErr(e)
     /\ e.t = "dict"
     /\ DOMAIN e.v = {k \in DOMAIN attrs : ~IsPrivate(k)}

\* C4: after save(save_path=p, key_path=k) the two paths are p and k and stay
\* so through save(), restore(), load() and update() of other attributes
\* until a save argument or an assignment changes them; a prune() in that
\* time leaves no file at p and none at k.
C4_SavePathsStay ==
  pinned.t = "pin" =>
    /\ save_path = pinned.save_path
    /\ key_path = pinned.key_path
    /\ lastOp = "prune" =>
         (pinned.save_path \notin DOMAIN files /\ pinned.key_path \notin DOMAIN files)

\* C5: a restore() called while no key file exists raises nothing and leaves
\* the attributes, the cache, the two paths and the disk unchanged.
C5_AbsentKeyRestore ==
  [][(lastOp' = "restore" /\ key_path \notin DOMAIN files) =>
       (result' = "ok" /\
        UNCHANGED <<attrs, converted, save_path, key_path, files, dirs>>)]_vars

\* a restore() that found no key file, although the save target exists, and
\* changed nothing: the cache was never assigned, the attributes are there
C5_Witness ==
  /\ lastOp = "restore"
  /\ result = "ok"
  /\ key_path \notin DOMAIN files
  /\ save_path \in DOMAIN files
  /\ converted = None
  /\ attrs # EmptyMap

\* C6: a restore() called while the key file exists and the save target
\* holds bytes that are no ciphertext made under that key fails with a
\* decryption error and leaves the attributes and the cache unchanged.
C6_BadCiphertextRestore ==
  [][(/\ lastOp' = "restore"
      /\ key_path \in DOMAIN files
      /\ save_path \in DOMAIN files
      /\ ~(files[save_path].kind = "cipher" /\ files[save_path].id = files[key_path].id)) =>
       (result' = "DecryptionFailure" /\ UNCHANGED <<attrs, converted>>)]_vars

\* a restore() that failed on a ciphertext written under another key file
C6_Witness ==
  /\ lastOp = "restore"
  /\ result = "DecryptionFailure"
  /\ key_path \in DOMAIN files
  /\ save_path \in DOMAIN files
  /\ files[save_path].kind = "cipher"
  /\ files[save_path].id # files[key_path].id
  /\ attrs # EmptyMap

\* C7: right after prune() the Config holds no configuration attribute, its
\* cache is empty, and it encodes to what a newly created Config with the
\* same paths encodes to.
C7_PruneEmpties ==
  lastOp = "prune" =>
    /\ attrs = EmptyMap
    /\ ~Truthy(converted)
    /\ encode_store(StoreObj, converted) = encode_store(Config(save_path, key_path), None)

\* C7 as amended: prune() raises nothing, leaves no file at the save target
\* and none at the key file path, every other file in place, and an empty
\* cache; the attributes and the two paths are what they were before.
C7_PruneDeletesFiles ==
  [][lastOp' = "prune" =>
       (/\ result' = "ok"
        /\ save_path \notin DOMAIN files'
        /\ key_path \notin DOMAIN files'
        /\ \A p \in DOMAIN files \ {save_path, key_path} :
             p \in DOMAIN files' /\ files'[p] = files[p]
        /\ converted' = Dict(EmptyMap)
        /\ UNCHANGED <<attrs, save_path, key_path>>)]_vars

\* a prune() of a Config that holds attributes and had been saved with both
\* paths given: the files are gone, the attributes are not
C7_Witness ==
  /\ lastOp = "prune"
  /\ pinned.t = "pin"
  /\ attrs # EmptyMap
  /\ converted = Dict(EmptyMap)
  /\ save_path \notin DOMAIN files
  /\ key_path \notin DOMAIN files

\* C10: load(p) of any path whose suffix is neither ".json" nor ".toml"
\* fails with the unsupported-format error and leaves the attributes, the
\* cache and the two paths unchanged.
C10_UnsupportedSuffix ==
  [][\A p \in LoadPaths :
       (p.suffix \notin {".json", ".toml"} /\ Load(p)) =>
         (result' = "NotImplementedError" /\
          UNCHANGED <<attrs, converted, save_path, key_path>>)]_vars

\* C10 as amended: the same for a path that names an existing regular file,
\* when the save target's parent directory exists or can be made.
C10_UnsupportedExistingFile ==
  [][\A p \in LoadPaths :
       (/\ p.suffix \notin {".json", ".toml"}
        /\ p \in DOMAIN SourceFiles
        /\ mkdir(dirs, Parent(save_path)).err = "ok"
        /\ Load(p)) =>
         (result' = "NotImplementedError" /\
          UNCHANGED <<attrs, converted, save_path, key_path>>)]_vars

\* a load of an existing ".yaml" file into a Config that holds attributes
C10_Witness ==
  /\ lastOp = "load"
  /\ result = "NotImplementedError"
  /\ attrs # EmptyMap
  /\ converted # None

====
